---- MODULE Spec2Model ----
(***************************************************************************)
(* A model of the CIHI hip/knee wait-times dashboard:                      *)
(*   code/extract_data.py    DataExtractor (read, partition, clean)        *)
(*   code/visualise_data.py  WaitTimesVisualizer (filter, pivot, plot)     *)
(*   app.py                  main (the dashboard entry point)              *)
(* A DataFrame is a record [cols, dtypes, rows]; a cell is a record that   *)
(* is a number, a text or null (NaN).  A call returns an outcome record    *)
(* [ok, err, val, log]: the value it returned or the exception it raised,  *)
(* and the lines it wrote to the error log.                                *)
(***************************************************************************)
EXTENDS Integers, Sequences, FiniteSets, TLC

VARIABLES
    waitBook,         \* the wait-times workbook on disk
    spendBook,        \* the hospital-spending workbook on disk
    wait_times_data,  \* outcome of extract_wait_times / the visualizer's data
    spending,         \* outcome of extract_hospital_spending
    selected,         \* the procedure chosen in the sidebar
    plot_data,        \* outcome of prepare_provincial_data
    fig,              \* outcome of create_comparative_plots
    charts,           \* figures handed to st.plotly_chart
    messages,         \* texts handed to st.error
    log,              \* lines written by logger.error
    pc                \* position of the running entry point

vars == <<waitBook, spendBook, wait_times_data, spending, selected,
          plot_data, fig, charts, messages, log, pc>>

----------------------------------------------------------------------------
(* Bounds of the model *)

MaxSheetRows == 2
MaxSpendRows == 2
MaxSheets == 14
MaxRows == 2
MaxPairs == 2

----------------------------------------------------------------------------
(* Cells *)

Null == [t |-> "null", n |-> 0, s |-> ""]
Num(n) == [t |-> "num", n |-> n, s |-> ""]
Str(s) == [t |-> "str", n |-> 0, s |-> s]

IsNull(c) == c.t = "null"
IsNum(c) == c.t = "num"
IsStr(c) == c.t = "str"

\* na_values=['NA', 'N/A', ''] with keep_default_na=True: texts read as NaN
NaValues == {"NA", "N/A", "", "n/a", "NaN", "nan", "NULL", "null", "None", "#N/A", "<NA>"}

\* the texts of the model that parse as a number, with their value
NumericTexts == {"100", "200"}
ParseText(s) == CASE s = "100" -> 100 [] s = "200" -> 200 [] OTHER -> 0

\* a variant: errors='ignore', which hands the cell back as it is
ToNumericIgnore(c) == c

\* pd.to_numeric(..., errors='coerce') on one cell
ToNumeric(c) ==
    IF IsStr(c)
    THEN IF c.s \in NumericTexts THEN Num(ParseText(c.s)) ELSE Null
    ELSE c

----------------------------------------------------------------------------
(* DataFrames *)

WaitColumns == {"Indicator", "Reporting level", "Province/territory",
                "Data year", "Metric", "Indicator result"}

NoFrame == [cols |-> {}, dtypes |-> <<>>, rows |-> <<>>]

\* the dtype pandas infers for a column on read: object as soon as one cell
\* is text (and for a column of no cells), a number dtype otherwise
InferDtype(rows, c) ==
    IF rows = <<>> \/ \E i \in DOMAIN rows : IsStr(rows[i][c])
    THEN "object" ELSE "float64"

Frame(cols, rows) ==
    [cols |-> cols, dtypes |-> [c \in cols |-> InferDtype(rows, c)], rows |-> rows]

\* df[mask]: the rows at which the boolean mask holds, in order, dtypes kept
RECURSIVE Masked(_, _)
Masked(rows, mask) ==
    IF rows = <<>> THEN <<>>
    ELSE LET front == Masked(SubSeq(rows, 1, Len(rows) - 1), mask)
         IN  IF mask[Len(rows)] THEN Append(front, rows[Len(rows)]) ELSE front

FilterRows(df, mask) == [df EXCEPT !.rows = Masked(df.rows, mask)]

\* DataFrame.dropna(how='all', axis=0)
DropEmptyRows(df) ==
    LET notna == [i \in DOMAIN df.rows |-> \E c \in df.cols : ~IsNull(df.rows[i][c])]
    IN  FilterRows(df, notna)

\* DataFrame.dropna(how='all', axis=1): a column stays when some row has a
\* value in it, so a frame of no rows loses every column
DropEmptyCols(df) ==
    LET keep == {c \in df.cols : \E i \in DOMAIN df.rows : ~IsNull(df.rows[i][c])}
    IN  [cols |-> keep,
         dtypes |-> [c \in keep |-> df.dtypes[c]],
         rows |-> [i \in DOMAIN df.rows |-> [c \in keep |-> df.rows[i][c]]]]

\* a variant: the value column alone is taken for coercion
ObjectColsValueOnly(df) ==
    {c \in df.cols : c = "Indicator result" /\ df.dtypes[c] = "object"}

\* select_dtypes(include=['object']).columns
ObjectCols(df) == {c \in df.cols : df.dtypes[c] = "object"}

\* for col in numeric_columns: df[col] = pd.to_numeric(df[col], errors='coerce')
CoerceCols(df, cs) ==
    [cols |-> df.cols,
     dtypes |-> [c \in df.cols |-> IF c \in cs THEN "float64" ELSE df.dtypes[c]],
     rows |-> [i \in DOMAIN df.rows |->
                 [c \in df.cols |-> IF c \in cs THEN ToNumeric(df.rows[i][c])
                                    ELSE df.rows[i][c]]]]

_clean_wait_times_data(df) ==
    LET cleaned == DropEmptyCols(DropEmptyRows(df))
    IN  CoerceCols(cleaned, ObjectCols(cleaned))

_clean_spending_data(df) ==
    LET cleaned == DropEmptyCols(DropEmptyRows(df))
    IN  CoerceCols(cleaned, ObjectCols(cleaned))

----------------------------------------------------------------------------
(* Outcomes of calls *)

Return(v, lg) == [ok |-> TRUE, err |-> "", val |-> v, log |-> lg]
Raise(e, none, lg) == [ok |-> FALSE, err |-> e, val |-> none, log |-> lg]

----------------------------------------------------------------------------
(* Workbooks and DataExtractor *)

wait_times_file == "wait-times-priority-procedures-in-canada-2024-data-tables-en.xlsx"
hospital_spending_file == "hospital-spending-series-a-2005-2022-data-tables-en.xlsx"
WaitSheetName == "Wait times 2008 to 2023"

ProcedureIndicator ==
    [hip_replacement |-> "Hip Replacement", knee_replacement |-> "Knee Replacement"]

\* a worksheet cell as pandas hands it over: a text of na_values is NaN
ReadCell(c) == IF IsStr(c) /\ c.s \in NaValues THEN Null ELSE c

ReadSheet(sh) ==
    Frame(sh.cols, [i \in DOMAIN sh.rows |-> [c \in sh.cols |-> ReadCell(sh.rows[i][c])]])

\* position of the sheet called name in the workbook, 0 when there is none
SheetIndex(book, name) ==
    IF \E i \in DOMAIN book.sheets : book.sheets[i].name = name
    THEN CHOOSE i \in DOMAIN book.sheets : book.sheets[i].name = name
    ELSE 0

\* sheet_name = "" stands for the call without a sheet_name: pd.read_excel
\* then reads the first sheet of the workbook.  A sheet of the model is the
\* region that header and usecols select: its column names and its data rows.
read_excel_file(book, filename, sheet_name) ==
    IF ~book.exists
    THEN Raise("No such file or directory", NoFrame, << <<"File not found", filename>> >>)
    ELSE IF sheet_name # ""
    THEN IF SheetIndex(book, sheet_name) = 0
         THEN Raise("Worksheet not found", NoFrame,
                    << <<"Error reading", filename, "Worksheet not found">> >>)
         ELSE Return(ReadSheet(book.sheets[SheetIndex(book, sheet_name)]), <<>>)
    ELSE Return(ReadSheet(book.sheets[1]), <<>>)

\* a variant: the except clause raises a new error in place of the one caught
extract_wait_times_wrapping(book) ==
    LET r == read_excel_file(book, wait_times_file, WaitSheetName)
        IsProc(p) ==
            FilterRows(r.val, [i \in DOMAIN r.val.rows |->
                                  r.val.rows[i]["Indicator"] = Str(ProcedureIndicator[p])])
    IN  IF ~r.ok
        THEN Raise("Error extracting wait times data", <<>>,
                   r.log \o << <<"Error extracting wait times data", r.err>> >>)
        ELSE IF "Indicator" \notin r.val.cols
        THEN Raise("Indicator", <<>>,
                   << <<"Error extracting wait times data", "Indicator">> >>)
        ELSE Return([p \in DOMAIN ProcedureIndicator |->
                        _clean_wait_times_data(IsProc(p))], r.log)

extract_wait_times(book) ==
    LET r == read_excel_file(book, wait_times_file, WaitSheetName)
        IsProc(p) ==
            FilterRows(r.val, [i \in DOMAIN r.val.rows |->
                                  r.val.rows[i]["Indicator"] = Str(ProcedureIndicator[p])])
    IN  IF ~r.ok
        THEN Raise(r.err, <<>>,
                   r.log \o << <<"Error extracting wait times data", r.err>> >>)
        ELSE IF "Indicator" \notin r.val.cols
        THEN Raise("Indicator", <<>>,
                   << <<"Error extracting wait times data", "Indicator">> >>)
        ELSE Return([p \in DOMAIN ProcedureIndicator |->
                        _clean_wait_times_data(IsProc(p))], r.log)

extract_hospital_spending(book) ==
    LET r == read_excel_file(book, hospital_spending_file, "")
    IN  IF ~r.ok
        THEN Raise(r.err, NoFrame,
                   r.log \o << <<"Error extracting hospital spending data", r.err>> >>)
        ELSE Return(_clean_spending_data(r.val), r.log)

----------------------------------------------------------------------------
(* WaitTimesVisualizer *)

\* self.metrics
metrics == <<"% Meeting Benchmark", "50th Percentile", "90th Percentile", "Volume">>
MetricSet == {metrics[i] : i \in DOMAIN metrics}

IndexCols == <<"Province/territory", "Data year">>

\* the texts of the model in the order sorting puts them
TextOrder == <<"% Meeting Benchmark", "50th Percentile", "90th Percentile",
               "Ontario", "Provincial", "Quebec", "Readmissions", "Regional", "Volume">>
TextRank(s) ==
    IF \E i \in DOMAIN TextOrder : TextOrder[i] = s
    THEN CHOOSE i \in DOMAIN TextOrder : TextOrder[i] = s
    ELSE 0

\* order of two cells of one index level (numbers before texts)
CellLE(a, b) ==
    \/ IsNum(a) /\ IsNum(b) /\ a.n <= b.n
    \/ IsNum(a) /\ ~IsNum(b)
    \/ IsStr(a) /\ IsStr(b) /\ TextRank(a.s) <= TextRank(b.s)
    \/ IsNull(b) /\ ~IsNum(a)

KeyLE(k, l) == IF k[1] = l[1] THEN CellLE(k[2], l[2]) ELSE CellLE(k[1], l[1])

RECURSIVE SortKeys(_)
SortKeys(S) ==
    IF S = {} THEN <<>>
    ELSE LET least == CHOOSE k \in S : \A l \in S : KeyLE(k, l)
         IN  <<least>> \o SortKeys(S \ {least})

\* the group key of a row: (Province/territory, Data year, Metric)
GroupKey(row) == <<row["Province/territory"], row["Data year"], row["Metric"]>>

\* groupby(keys) with dropna=True: a row with a null key is in no group
Groups(data) ==
    {GroupKey(data.rows[i]) : i \in
        {j \in DOMAIN data.rows : \A k \in 1..3 : ~IsNull(GroupKey(data.rows[j])[k])}}

\* a variant: aggfunc='last', the last value of the group that is not null
LastValue(data, g) ==
    LET at == {i \in DOMAIN data.rows :
                  GroupKey(data.rows[i]) = g /\ ~IsNull(data.rows[i]["Indicator result"])}
    IN  IF at = {} THEN Null
        ELSE data.rows[CHOOSE i \in at : \A j \in at : i >= j]["Indicator result"]

\* a variant: aggfunc='count', the number of values of the group that are not null
CountValues(data, g) ==
    Num(Cardinality({i \in DOMAIN data.rows :
                        GroupKey(data.rows[i]) = g /\ ~IsNull(data.rows[i]["Indicator result"])}))

\* aggfunc='first': GroupBy.first, the first value of the group that is not null
First(data, g) ==
    LET at == {i \in DOMAIN data.rows :
                  GroupKey(data.rows[i]) = g /\ ~IsNull(data.rows[i]["Indicator result"])}
    IN  IF at = {} THEN Null
        ELSE data.rows[CHOOSE i \in at : \A j \in at : i <= j]["Indicator result"]

\* agged.dropna(how='all'): the groups whose aggregate is null are dropped
Agged(data) == {g \in Groups(data) : ~IsNull(First(data, g))}

\* the label of the column that unstack makes of a Metric value
ColLabel(c) == IF IsStr(c) THEN c.s ELSE "number"

\* pd.pivot_table(values='Indicator result', index=[...], columns=['Metric'],
\*                aggfunc='first').reset_index()
pivot_table(data) ==
    LET missing == {c \in {"Indicator result", "Province/territory", "Data year", "Metric"} :
                       c \notin data.cols}
    IN  IF missing # {}
        THEN Raise(IF "Indicator result" \in missing THEN "Indicator result"
                   ELSE IF "Province/territory" \in missing THEN "Province/territory"
                   ELSE IF "Data year" \in missing THEN "Data year" ELSE "Metric",
                   NoFrame, <<>>)
        ELSE
        LET agged == Agged(data)
            keys == SortKeys({<<g[1], g[2]>> : g \in agged})
            mcols == {g[3] : g \in agged}
            cols == {IndexCols[1], IndexCols[2]} \cup {ColLabel(m) : m \in mcols}
            Cell(k, c) ==
                IF c = IndexCols[1] THEN k[1]
                ELSE IF c = IndexCols[2] THEN k[2]
                ELSE LET m == CHOOSE x \in mcols : ColLabel(x) = c
                     IN  IF <<k[1], k[2], m>> \in agged
                         THEN First(data, <<k[1], k[2], m>>) ELSE Null
        IN  Return([cols |-> cols,
                    dtypes |-> [c \in cols |-> "float64"],
                    rows |-> [i \in DOMAIN keys |-> [c \in cols |-> Cell(keys[i], c)]]],
                   <<>>)

\* a variant: no filter on the reporting level
AllLevels(df) == df

\* df[df['Reporting level'] == 'Provincial']
Provincial(df) ==
    FilterRows(df, [i \in DOMAIN df.rows |->
                       df.rows[i]["Reporting level"] = Str("Provincial")])

prepare_provincial_data(data, procedure) ==
    IF procedure \notin DOMAIN data
    THEN Raise(procedure, NoFrame,
               << <<"Error preparing provincial data", procedure>> >>)
    ELSE IF "Reporting level" \notin data[procedure].cols
    THEN Raise("Reporting level", NoFrame,
               << <<"Error preparing provincial data", "Reporting level">> >>)
    ELSE LET p == pivot_table(Provincial(data[procedure]))
         IN  IF ~p.ok
             THEN Raise(p.err, NoFrame,
                        << <<"Error preparing provincial data", p.err>> >>)
             ELSE p

NoFig == [title |-> "", traces |-> <<>>]

\* procedure.replace('_', ' ').title()
TitleOf(procedure) ==
    CASE procedure = "hip_replacement" -> "Hip Replacement"
      [] procedure = "knee_replacement" -> "Knee Replacement"
      [] OTHER -> procedure

\* Series.unique(): the values in order of first appearance
RECURSIVE Unique(_)
Unique(q) ==
    IF q = <<>> THEN <<>>
    ELSE LET rest == Unique(SubSeq(q, 1, Len(q) - 1))
             x == q[Len(q)]
         IN  IF \E i \in DOMAIN rest : rest[i] = x THEN rest ELSE Append(rest, x)

\* the four go.Scatter traces of one province, one per subplot
TracesOf(plot, province) ==
    LET Is(row) == row["Province/territory"] = province
        part == SelectSeq(plot.rows, Is)
    IN  [m \in DOMAIN metrics |->
            [name |-> province, metric |-> metrics[m],
             x |-> [i \in DOMAIN part |-> part[i]["Data year"]],
             y |-> [i \in DOMAIN part |-> part[i][metrics[m]]]]]

RECURSIVE AllTraces(_, _)
AllTraces(plot, provinces) ==
    IF provinces = <<>> THEN <<>>
    ELSE TracesOf(plot, Head(provinces)) \o AllTraces(plot, Tail(provinces))

create_comparative_plots(data, procedure) ==
    LET p == prepare_provincial_data(data, procedure)
        plot == p.val
        provinces == Unique([i \in DOMAIN plot.rows |-> plot.rows[i]["Province/territory"]])
        absent == {m \in DOMAIN metrics : metrics[m] \notin plot.cols}
        first == CHOOSE m \in absent : \A o \in absent : m <= o
    IN  IF ~p.ok
        THEN Raise(p.err, NoFig,
                   p.log \o << <<"Error creating comparative plots", p.err>> >>)
        ELSE IF provinces # <<>> /\ absent # {}
        THEN Raise(metrics[first], NoFig,
                   << <<"Error creating comparative plots", metrics[first]>> >>)
        ELSE Return([title |-> TitleOf(procedure), traces |-> AllTraces(plot, provinces)],
                    <<>>)

\* self.procedures = list(wait_times_data.keys())
get_available_procedures(data) == DOMAIN data

----------------------------------------------------------------------------
(* Inputs of the model *)

NotCalled(none) == [ok |-> FALSE, err |-> "not called", val |-> none, log |-> <<>>]

MissingBook == [exists |-> FALSE, sheets |-> <<>>]

\* data rows of the wait-times sheet
WaitRow(ind, lev, val) ==
    [c \in WaitColumns |->
        CASE c = "Indicator" -> Str(ind)
          [] c = "Reporting level" -> lev
          [] c = "Province/territory" -> Str("Ontario")
          [] c = "Data year" -> Num(2020)
          [] c = "Metric" -> Str("Volume")
          [] OTHER -> val]

WaitRows ==
    {WaitRow(ind, lev, val) :
        ind \in {"Hip Replacement", "Knee Replacement", "Cataract Surgery"},
        lev \in {Str("Provincial"), Null},
        val \in {Num(100), Str("200"), Str("Suppressed"), Str("N/A")}}

\* a wait-times workbook without the sheet, and one with it
OtherBook ==
    [exists |-> TRUE,
     sheets |-> << [name |-> "Notes to readers", cols |-> {"Notes"}, rows |-> <<>>] >>]
\* a wait-times workbook whose sheet has no Indicator column
RenamedBook ==
    [exists |-> TRUE,
     sheets |-> << [name |-> WaitSheetName, cols |-> WaitColumns \ {"Indicator"},
                    rows |-> <<>>] >>]
WaitBook(rows) ==
    [exists |-> TRUE,
     sheets |-> << [name |-> WaitSheetName, cols |-> WaitColumns, rows |-> rows] >>]

IsWaitBook(book) ==
    \/ book \in {MissingBook, OtherBook, RenamedBook}
    \/ \E k \in 0..MaxSheetRows : \E rows \in [1..k -> WaitRows] : book = WaitBook(rows)

\* the hospital-spending workbook: its sheets by position
SpendingSheetNames ==
    <<"Notes to readers", "Table of contents", "N.L.", "P.E.I.", "N.S.", "N.B.", "Que.",
      "Ont.", "Man.", "Sask.", "Alta.", "B.C.", "Y.T.", "N.W.T.", "Nun.", "Canada">>

SpendColumns == {"Fiscal year", "Hospital spending"}

SpendRows ==
    {[c \in SpendColumns |-> IF c = "Fiscal year" THEN y ELSE v] :
        y \in {Num(2005), Null},
        v \in {Num(100), Str("200"), Str("Suppressed"), Null}}

\* a spending workbook of n sheets; rows are the data rows of its first sheet
SpendBook(n, rows) ==
    [exists |-> TRUE,
     sheets |-> [i \in 1..n |->
                   [name |-> SpendingSheetNames[i], cols |-> SpendColumns,
                    rows |-> IF i = 1 THEN rows ELSE <<>>]]]

IsSpendBook(book) ==
    \E n \in 1..MaxSheets : \E k \in 0..MaxSpendRows : \E rows \in [1..k -> SpendRows] :
          book = SpendBook(n, rows)

\* long tables handed to WaitTimesVisualizer
LongColumns == {"Reporting level", "Province/territory", "Data year", "Metric",
                "Indicator result"}

LongRow(lev, reg, yr, met, val) ==
    [c \in LongColumns |->
        CASE c = "Reporting level" -> lev
          [] c = "Province/territory" -> reg
          [] c = "Data year" -> yr
          [] c = "Metric" -> met
          [] OTHER -> val]

Levels == {Str("Provincial"), Str("Regional")}
Regions == {Str("Ontario"), Null}
Years == {Num(2020), Num(2021)}
Metrics == {Str("Volume"), Str("50th Percentile"), Str("Readmissions"), Null}
Values == {Num(100), Num(200), Null}

LongRows ==
    {LongRow(lev, reg, yr, met, val) :
        lev \in Levels, reg \in Regions, yr \in Years, met \in Metrics, val \in Values}

\* WaitTimesVisualizer(wait_times_data) on one long table
Visualizer(t) == Return([hip_replacement |-> t], <<>>)

\* round-trip tables: one Provincial record per metric of self.metrics for each
\* chosen (region, year) pair; a value is null or a number naming its record
PairSeq == <<<<Str("Ontario"), Num(2020)>>, <<Str("Ontario"), Num(2021)>>,
             <<Null, Num(2020)>>, <<Null, Num(2021)>>>>

RECURSIVE PairRows(_, _, _)
PairRows(chosen, value, k) ==
    IF k > Len(PairSeq) THEN <<>>
    ELSE (IF k \in chosen
          THEN [m \in DOMAIN metrics |->
                   LongRow(Str("Provincial"), PairSeq[k][1], PairSeq[k][2],
                           Str(metrics[m]),
                           IF value[<<k, m>>] = "null" THEN Null ELSE Num(10 * k + m))]
          ELSE <<>>) \o PairRows(chosen, value, k + 1)

Reverse(q) == [i \in DOMAIN q |-> q[Len(q) + 1 - i]]

RoundTripTable(chosen, value, rev) ==
    Frame(LongColumns, IF rev THEN Reverse(PairRows(chosen, value, 1))
                       ELSE PairRows(chosen, value, 1))

----------------------------------------------------------------------------
(* Initial states *)

InitRest ==
    /\ spending = NotCalled(NoFrame)
    /\ selected = ""
    /\ plot_data = NotCalled(NoFrame)
    /\ fig = NotCalled(NoFig)
    /\ charts = <<>>
    /\ messages = <<>>
    /\ log = <<>>

\* the extractor in front of one workbook
InitExtract ==
    /\ \/ IsWaitBook(waitBook) /\ spendBook = MissingBook
       \/ waitBook = MissingBook /\ IsSpendBook(spendBook)
    /\ wait_times_data = NotCalled(<<>>)
    /\ pc = "idle"
    /\ InitRest

\* the dashboard before main runs
InitApp ==
    /\ IsWaitBook(waitBook)
    /\ spendBook = MissingBook
    /\ wait_times_data = NotCalled(<<>>)
    /\ pc = "main"
    /\ InitRest

\* a visualizer constructed on a long table
InitPivot ==
    /\ waitBook = MissingBook
    /\ spendBook = MissingBook
    /\ \E k \in 0..MaxRows : \E rows \in [1..k -> LongRows] :
          wait_times_data = Visualizer(Frame(LongColumns, rows))
    /\ pc = "loaded"
    /\ InitRest

InitRoundTrip ==
    /\ waitBook = MissingBook
    /\ spendBook = MissingBook
    /\ \E chosen \in {c \in SUBSET DOMAIN PairSeq : Cardinality(c) \in 1..MaxPairs} :
       \E value \in [chosen \X DOMAIN metrics -> {"null", "number"}] :
       \E rev \in BOOLEAN :
          wait_times_data = Visualizer(RoundTripTable(chosen, value, rev))
    /\ pc = "loaded"
    /\ InitRest

----------------------------------------------------------------------------
(* Operations *)

ExtractWaitTimes ==
    /\ pc = "idle"
    /\ LET o == extract_wait_times(waitBook)
       IN  /\ wait_times_data' = o
           /\ log' = log \o o.log
           /\ pc' = IF o.ok THEN "loaded" ELSE "failed"
    /\ UNCHANGED <<waitBook, spendBook, spending, selected, plot_data, fig, charts, messages>>

ExtractHospitalSpending ==
    /\ pc = "idle"
    /\ LET o == extract_hospital_spending(spendBook)
       IN  /\ spending' = o
           /\ log' = log \o o.log
           /\ pc' = IF o.ok THEN "spent" ELSE "failed"
    /\ UNCHANGED <<waitBook, spendBook, wait_times_data, selected, plot_data, fig, charts,
                   messages>>

PrepareProvincialData ==
    /\ pc = "loaded"
    /\ \E p \in get_available_procedures(wait_times_data.val) :
          LET o == prepare_provincial_data(wait_times_data.val, p)
          IN  /\ selected' = p
              /\ plot_data' = o
              /\ log' = log \o o.log
              /\ pc' = "prepared"
    /\ UNCHANGED <<waitBook, spendBook, wait_times_data, spending, fig, charts, messages>>

CreateComparativePlots ==
    /\ pc = "loaded"
    /\ \E p \in get_available_procedures(wait_times_data.val) :
          LET o == create_comparative_plots(wait_times_data.val, p)
          IN  /\ selected' = p
              /\ plot_data' = prepare_provincial_data(wait_times_data.val, p)
              /\ fig' = o
              /\ log' = log \o o.log
              /\ pc' = "plotted"
    /\ UNCHANGED <<waitBook, spendBook, wait_times_data, spending, charts, messages>>

\* app.py main: lines 10-11, the extraction, and the handler of line 41
MainExtract ==
    /\ pc = "main"
    /\ LET o == extract_wait_times(waitBook)
       IN  /\ wait_times_data' = o
           /\ log' = log \o o.log
           /\ IF o.ok
              THEN /\ pc' = "sidebar"
                   /\ UNCHANGED messages
              ELSE /\ pc' = "done"
                   /\ messages' = Append(messages, <<"An error occurred: ", o.err>>)
    /\ UNCHANGED <<waitBook, spendBook, spending, selected, plot_data, fig, charts>>

\* app.py main: lines 14-22, the visualizer and the sidebar selection
MainSelect ==
    /\ pc = "sidebar"
    /\ \E p \in get_available_procedures(wait_times_data.val) : selected' = p
    /\ pc' = "plot"
    /\ UNCHANGED <<waitBook, spendBook, wait_times_data, spending, plot_data, fig, charts,
                   messages, log>>

\* app.py main: lines 25-39, the figure and the chart, and the handler of line 41
MainPlot ==
    /\ pc = "plot"
    /\ LET o == create_comparative_plots(wait_times_data.val, selected)
       IN  /\ plot_data' = prepare_provincial_data(wait_times_data.val, selected)
           /\ fig' = o
           /\ log' = log \o o.log
           /\ IF o.ok
              THEN /\ charts' = Append(charts, o.val)
                   /\ UNCHANGED messages
              ELSE /\ messages' = Append(messages, <<"An error occurred: ", o.err>>)
                   /\ UNCHANGED charts
           /\ pc' = "done"
    /\ UNCHANGED <<waitBook, spendBook, wait_times_data, spending, selected>>

NextExtract == ExtractWaitTimes \/ ExtractHospitalSpending \/ PrepareProvincialData
NextApp == MainExtract \/ MainSelect \/ MainPlot
NextPivot == PrepareProvincialData \/ CreateComparativePlots

SpecExtract == InitExtract /\ [][NextExtract]_vars
SpecApp == InitApp /\ [][NextApp]_vars
SpecPivot == InitPivot /\ [][NextPivot]_vars
SpecRoundTrip == InitRoundTrip /\ [][NextPivot]_vars

----------------------------------------------------------------------------
(* Vocabulary of the properties *)

Procedures == {"hip_replacement", "knee_replacement"}

\* the wait-times sheet as read, when the workbook has it
HasWaitSheet ==
    /\ waitBook.exists
    /\ SheetIndex(waitBook, WaitSheetName) # 0
    /\ waitBook.sheets[SheetIndex(waitBook, WaitSheetName)].cols = WaitColumns
SheetRead == ReadSheet(waitBook.sheets[SheetIndex(waitBook, WaitSheetName)])

\* positions of the rows of the sheet whose Indicator is that of procedure p
RowsOf(p) ==
    {i \in DOMAIN SheetRead.rows :
        SheetRead.rows[i]["Indicator"] = Str(ProcedureIndicator[p])}

\* the k-th smallest element of a set of positions
RECURSIVE Nth(_, _)
Nth(S, k) ==
    LET least == CHOOSE i \in S : \A j \in S : i <= j
    IN  IF k = 1 THEN least ELSE Nth(S \ {least}, k - 1)

Extracted == wait_times_data.ok /\ pc \in {"loaded", "prepared"}
Prepared == plot_data # NotCalled(NoFrame)

\* a text that does not parse as a number
IsBadText(c) == IsStr(c) /\ c.s \notin NumericTexts

\* the long table the visualizer holds for the selected procedure, its
\* Provincial records and the wide table made of it
Long == wait_times_data.val[selected]
Wide == plot_data.val
ProvincialAt == {i \in DOMAIN Long.rows : Long.rows[i]["Reporting level"] = Str("Provincial")}
RegionOf(i) == Long.rows[i]["Province/territory"]
YearOf(i) == Long.rows[i]["Data year"]
MetricOf(i) == Long.rows[i]["Metric"]
ValueOf(i) == Long.rows[i]["Indicator result"]
KeyedAt == {i \in ProvincialAt :
               ~IsNull(RegionOf(i)) /\ ~IsNull(YearOf(i)) /\ ~IsNull(MetricOf(i))}
SameKey(i, j) ==
    RegionOf(i) = RegionOf(j) /\ YearOf(i) = YearOf(j) /\ MetricOf(i) = MetricOf(j)

\* rows of the wide table for (region, year); the cell of a record's key
WideRowsOf(r, y) ==
    {k \in DOMAIN Wide.rows :
        Wide.rows[k]["Province/territory"] = r /\ Wide.rows[k]["Data year"] = y}
HasCell(i) ==
    /\ WideRowsOf(RegionOf(i), YearOf(i)) # {}
    /\ IsStr(MetricOf(i)) /\ MetricOf(i).s \in Wide.cols
CellOf(i) ==
    IF HasCell(i)
    THEN Wide.rows[CHOOSE k \in WideRowsOf(RegionOf(i), YearOf(i)) : TRUE][MetricOf(i).s]
    ELSE Null
WideKeys == {<<Wide.rows[k]["Province/territory"], Wide.rows[k]["Data year"]>> :
                k \in DOMAIN Wide.rows}

----------------------------------------------------------------------------
(* Properties *)

\* C1: for a sheet with the expected columns extract_wait_times returns exactly the
\* keys hip_replacement and knee_replacement, every record of a returned table has
\* the Indicator of its procedure, and a row with another Indicator is in neither.
C1_PartitionKeepsIndicator ==
    Extracted =>
        /\ DOMAIN wait_times_data.val = Procedures
        /\ \A p \in Procedures :
              LET t == wait_times_data.val[p]
              IN  /\ Len(t.rows) = Cardinality(RowsOf(p))
                  /\ \A k \in DOMAIN t.rows :
                        /\ "Indicator" \in t.cols
                        /\ t.rows[k]["Indicator"] = Str(ProcedureIndicator[p])

NumericColumns == {"Indicator result", "Data year", "Hospital spending", "Fiscal year"}

WaitTimesCalled == wait_times_data # NotCalled(<<>>)
SpendingCalled == spending # NotCalled(NoFrame)

\* the first sheet of the spending workbook as read, and its rows that are not empty
SpendRead == ReadSheet(spendBook.sheets[1])
SpendKept ==
    {i \in DOMAIN SpendRead.rows : \E c \in SpendRead.cols : ~IsNull(SpendRead.rows[i][c])}

\* cleaned row k of table t comes from row i of the frame read: in a numeric
\* column a text that is no number is null, a number is kept
CoercedFrom(t, k, read, i) ==
    \A c \in NumericColumns \cap read.cols :
        /\ IsBadText(read.rows[i][c]) => c \in t.cols /\ IsNull(t.rows[k][c])
        /\ IsNum(read.rows[i][c]) => c \in t.cols /\ t.rows[k][c] = read.rows[i][c]

\* C4: a cell of a numeric column holding a text that is no number is null in the
\* cleaned table, the numbers of the column keep their values, and the extraction
\* does not raise (wait times and hospital spending alike).
C4_BadTextBecomesNull ==
    /\ WaitTimesCalled /\ HasWaitSheet =>
          /\ wait_times_data.ok
          /\ \A p \in Procedures :
                LET t == wait_times_data.val[p]
                IN  /\ Len(t.rows) = Cardinality(RowsOf(p))
                    /\ \A k \in DOMAIN t.rows :
                          CoercedFrom(t, k, SheetRead, Nth(RowsOf(p), k))
    /\ SpendingCalled /\ spendBook.exists =>
          /\ spending.ok
          /\ Len(spending.val.rows) = Cardinality(SpendKept)
          /\ \A k \in DOMAIN spending.val.rows :
                CoercedFrom(spending.val, k, SpendRead, Nth(SpendKept, k))

\* a cleaned table with a cell that was a text and is null, and a number kept in
\* the same column
C4_Witness ==
    /\ Extracted
    /\ \E p \in Procedures :
          LET t == wait_times_data.val[p]
          IN  \E k, l \in DOMAIN t.rows :
                 /\ SheetRead.rows[Nth(RowsOf(p), k)]["Indicator result"] = Str("Suppressed")
                 /\ IsNull(t.rows[k]["Indicator result"])
                 /\ SheetRead.rows[Nth(RowsOf(p), l)]["Indicator result"] = Num(100)
                 /\ t.rows[l]["Indicator result"] = Num(100)

\* C6: extract_hospital_spending reads the sheets at indices 2 to 13 and returns a
\* mapping with one entry per sheet keyed by the sheet's name; when one of these
\* indices is out of range the call fails and returns no mapping.
C6_TwelveSheetsByName ==
    SpendingCalled /\ spendBook.exists =>
        IF Len(spendBook.sheets) >= 14
        THEN /\ spending.ok
             /\ DOMAIN spending.val = {spendBook.sheets[i + 1].name : i \in 2..13}
        ELSE ~spending.ok

\* C9: on a wait-times sheet with a header and no data row, extract_wait_times and
\* then prepare_provincial_data complete for both procedures and the wide table
\* has no row.
C9_EmptySheetEmptyWide ==
    HasWaitSheet /\ SheetRead.rows = <<>> =>
        /\ WaitTimesCalled => wait_times_data.ok
        /\ Prepared => plot_data.ok /\ plot_data.val.rows = <<>>

\* records of the key of record i: all Provincial ones, and those with a value
Duplicates(i) == {j \in KeyedAt : SameKey(i, j)}
Valued(i) == {j \in Duplicates(i) : ~IsNull(ValueOf(j))}
Least(S) == CHOOSE i \in S : \A j \in S : i <= j

\* C2 as stated: for a (region, data_year, metric) key of more than one Provincial
\* record the cell holds the value of the first such record in row order, null
\* included, and the call does not fail.
C2_FirstRecordWins ==
    Prepared =>
        /\ plot_data.ok
        /\ \A i \in KeyedAt :
              Cardinality(Duplicates(i)) > 1 =>
                  CellOf(i) = ValueOf(Least(Duplicates(i)))

\* C2 amended: for a (region, data_year, metric) key without null component of more
\* than one Provincial record the cell holds the first value that is not null among
\* these records in row order; when all are null the key has no value (a null cell
\* or none); the call does not fail.
C2_FirstValueWins ==
    Prepared =>
        /\ plot_data.ok
        /\ \A i \in KeyedAt :
              Cardinality(Duplicates(i)) > 1 =>
                  IF Valued(i) = {} THEN IsNull(CellOf(i))
                  ELSE HasCell(i) /\ CellOf(i) = ValueOf(Least(Valued(i)))

\* a key whose first record is null and whose second has a value, which the cell holds
C2_Witness ==
    /\ Prepared /\ plot_data.ok
    /\ \E i \in KeyedAt :
          /\ Cardinality(Duplicates(i)) > 1
          /\ IsNull(ValueOf(Least(Duplicates(i))))
          /\ Valued(i) # {}
          /\ CellOf(i) = ValueOf(Least(Valued(i)))

\* the (region, year) pairs of a set of records
PairsOf(S) == {<<RegionOf(i), YearOf(i)>> : i \in S}

\* C3 as stated: the keys of the rows returned are the (region, data_year) pairs of
\* the Provincial records, one row each, also for a pair whose values are all null.
C3_RowPerProvincialPair ==
    Prepared =>
        /\ plot_data.ok
        /\ WideKeys = PairsOf({i \in ProvincialAt : ~IsNull(RegionOf(i)) /\ ~IsNull(YearOf(i))})
        /\ Cardinality(WideKeys) = Len(Wide.rows)

\* C3 amended: the keys of the rows returned are the (region, data_year) pairs of the
\* Provincial records whose region, year and metric are not null and whose value is
\* not null, one row each; a pair of other records only has no row.
C3_RowPerValuedPair ==
    Prepared =>
        /\ plot_data.ok
        /\ WideKeys = PairsOf({i \in KeyedAt : ~IsNull(ValueOf(i))})
        /\ Cardinality(WideKeys) = Len(Wide.rows)

\* a wide table with a row, made of a table that also has a Provincial pair whose
\* values are all null and a pair of a record that is not Provincial: neither has a row
C3_Witness ==
    /\ Prepared /\ plot_data.ok
    /\ Wide.rows # <<>>
    /\ \E i \in KeyedAt : IsNull(ValueOf(i)) /\ WideRowsOf(RegionOf(i), YearOf(i)) = {}

\* C8: the metric columns of the table returned are exactly the four of self.metrics:
\* a metric outside it makes no column, a metric no record carries has a null column.
C8_ClosedMetricColumns ==
    Prepared =>
        /\ plot_data.ok
        /\ Wide.rows # <<>> => Wide.cols \ {IndexCols[1], IndexCols[2]} = MetricSet

\* C5 as stated: with one Provincial record per metric of the four for each (region,
\* data_year) pair, the cell at row (region, data_year) and column metric equals the
\* value of the record, for every record.
C5_RoundTrip ==
    Prepared =>
        /\ plot_data.ok
        /\ \A i \in KeyedAt : HasCell(i) /\ CellOf(i) = ValueOf(i)

\* C5 amended: with one Provincial record per metric of the four for each (region,
\* data_year) pair, the cell at row (region, data_year) and column metric equals the
\* value of the record, for every record whose region, year and value are not null;
\* a record whose value is null has a null cell or none.
C5_RoundTripOfValues ==
    Prepared =>
        /\ plot_data.ok
        /\ \A i \in KeyedAt :
              IF IsNull(ValueOf(i)) THEN IsNull(CellOf(i))
              ELSE HasCell(i) /\ CellOf(i) = ValueOf(i)

\* a wide table of two rows with the four metric columns, made of a table that has a
\* record without value
C5_Witness ==
    /\ Prepared /\ plot_data.ok
    /\ Len(Wide.rows) = 2
    /\ MetricSet \subseteq Wide.cols
    /\ \E i \in KeyedAt : IsNull(ValueOf(i)) /\ HasCell(i)
    /\ \E i \in KeyedAt : ~IsNull(ValueOf(i)) /\ CellOf(i) = ValueOf(i)

\* what reading the wait-times sheet gives, before any handler sees it
ReadOutcome == read_excel_file(waitBook, wait_times_file, WaitSheetName)

Shown(e) == << <<"An error occurred: ", e>> >>

\* C7: in main an error raised while reading, extracting, pivoting or building the
\* figure reaches main with its text unchanged; main shows one message holding that
\* text, renders no chart, retries nothing and uses no other data; a run without
\* error renders one chart and shows no message.
C7_ErrorsReachMain ==
    /\ pc # "done" => messages = <<>> /\ charts = <<>>
    /\ pc = "done" =>
          IF ~ReadOutcome.ok
          THEN /\ messages = Shown(ReadOutcome.err)
               /\ charts = <<>>
               /\ ~wait_times_data.ok /\ wait_times_data.val = <<>>
               /\ plot_data = NotCalled(NoFrame) /\ fig = NotCalled(NoFig)
               /\ Len(log) = 2
          ELSE IF ~wait_times_data.ok
          THEN /\ wait_times_data.err \notin ReadOutcome.val.cols
               /\ messages = Shown(wait_times_data.err)
               /\ charts = <<>>
               /\ wait_times_data.val = <<>>
               /\ plot_data = NotCalled(NoFrame) /\ fig = NotCalled(NoFig)
               /\ Len(log) = 1
          ELSE IF ~plot_data.ok
          THEN /\ plot_data.err \notin wait_times_data.val[selected].cols
               /\ messages = Shown(plot_data.err)
               /\ charts = <<>>
               /\ fig = Raise(plot_data.err, NoFig, fig.log)
               /\ Len(log) = 2
          ELSE IF ~fig.ok
          THEN /\ messages = Shown(fig.err)
               /\ charts = <<>>
               /\ Len(log) = 1
          ELSE /\ messages = <<>>
               /\ charts = <<fig.val>>
               /\ log = <<>>

\* a run of main in which the sheet was read and the pivot step raised: one message
C7_Witness ==
    /\ pc = "done"
    /\ ReadOutcome.ok /\ wait_times_data.ok
    /\ ~plot_data.ok /\ ~fig.ok
    /\ Len(messages) = 1 /\ charts = <<>>

====
